---- MODULE Spec2Model ----
(***************************************************************************)
(* State-machine model of the blog backend: user registration, the bearer  *)
(* token dependency of deps.py, the post lifecycle handlers of             *)
(* routers/posts_claude.py, routers/posts.py and routers/admin.py, the     *)
(* anonymous read routes, and the slug allocation the routers share.       *)
(*                                                                         *)
(* Every request to a post route enters through get_current_user, as it    *)
(* does under FastAPI: the handler operators are applied to the value that *)
(* dependency returns.  Requests are modelled await by await, each holding *)
(* a slot of reqs while it waits, so that requests interleave.             *)
(* Spec starts on an empty database, SpecStored on one that holds posts.   *)
(*                                                                         *)
(* Strings that the code inspects character by character (titles, slugs)   *)
(* are sequences of characters ("e-acute" and "sharp-s" stand for the two  *)
(* non-ASCII letters e with acute accent and German sharp s).  A datetime  *)
(* is a member of Times; a NULL column, or a missing object, is None.      *)
(***************************************************************************)
EXTENDS Integers, Sequences, FiniteSets, TLC

\* ------------------------------------------------------------------ bounds
MaxEmails == 2
MaxPostId == 1
MaxChain == 3
MaxReqs == 2
MaxCount == 4
MaxTime == 1

\* ------------------------------------------------------------------ values
\* None where the code expects a str (PostUpdate.body), a title/slug string,
\* a User, or a datetime (a NULL column).
None == "None"
NoTitle == <<"None">>
NoUser == [id |-> 0, email |-> 0, role |-> "None"]
Null == 0

Times == 1..MaxTime

\* The time the stored rows were written.
Now0 == 1

RoleUser == "user"
RoleAdmin == "admin"

draft == "draft"
pending_review == "pending_review"
published == "published"
rejected == "rejected"
PostStatus == {draft, pending_review, published, rejected}

\* Distinct e-mail addresses, numbered.
Emails == 1..MaxEmails

\* Request titles: "A" (slug "a") and a title whose slug is that slug plus a
\* numeric suffix, "a 1" (slug "a-1").
Titles == {<<"A">>, <<"a", " ", "1">>}

Bodies == {"b1"}

\* ------------------------------------------------------------------ slugify
Upper == {"A", "B"}
LowerCase == {"a", "b"}
Digit == {"0", "1", "2", "3", "4", "5", "6", "7", "8", "9"}
Space == {" ", "\t"}

\* unicodedata.normalize("NFKD", c).encode("ascii", "ignore"): an accented
\* letter decomposes into its base letter and a combining mark, and the mark
\* is dropped; a character with no ASCII decomposition is dropped.
AsciiOf(c) ==
    IF c = "e-acute" THEN <<"e">>
    ELSE IF c = "sharp-s" THEN <<>>
    ELSE <<c>>

RECURSIVE NfkdAscii(_)
NfkdAscii(s) ==
    IF s = <<>> THEN <<>> ELSE AsciiOf(Head(s)) \o NfkdAscii(Tail(s))

\* re.sub(r"[^a-zA-Z0-9\s-]", "", value)
Kept(c) == c \in Upper \cup LowerCase \cup {"e"} \cup Digit \cup Space \cup {"-"}

RECURSIVE LStrip(_)
LStrip(s) ==
    IF s # <<>> /\ Head(s) \in Space THEN LStrip(Tail(s)) ELSE s

RECURSIVE RStrip(_)
RStrip(s) ==
    IF s # <<>> /\ s[Len(s)] \in Space THEN RStrip(SubSeq(s, 1, Len(s) - 1)) ELSE s

Strip(s) == RStrip(LStrip(s))

LowerOf(c) ==
    IF c = "A" THEN "a" ELSE IF c = "B" THEN "b" ELSE c

Lower(s) == [i \in 1..Len(s) |-> LowerOf(s[i])]

\* re.sub(r"[\s_-]+", "-", value): every maximal run becomes one hyphen.
IsSep(c) == c \in Space \cup {"_", "-"}

RECURSIVE LStripSep(_)
LStripSep(s) ==
    IF s # <<>> /\ IsSep(Head(s)) THEN LStripSep(Tail(s)) ELSE s

RECURSIVE Collapse(_)
Collapse(s) ==
    IF s = <<>> THEN <<>>
    ELSE IF IsSep(Head(s))
         THEN <<"-">> \o Collapse(LStripSep(Tail(s)))
         ELSE <<Head(s)>> \o Collapse(Tail(s))

slugify(value) ==
    Collapse(Lower(Strip(SelectSeq(NfkdAscii(value), Kept))))


\* ------------------------------------------------------------------ storage
VARIABLES users, posts, reqs, resp

vars == <<users, posts, reqs, resp>>

\* Post.slug.like(f"{base}%"): slugify leaves no LIKE wildcard in base, so
\* the pattern is a prefix match.
StartsWith(s, prefix) ==
    /\ Len(prefix) <= Len(s)
    /\ SubSeq(s, 1, Len(prefix)) = prefix

\* select(func.count(Post.id)).where(Post.slug.like(...), Post.id != exclude)
count_like(db, base, exclude) ==
    Cardinality({p \in DOMAIN db : p # exclude /\ StartsWith(db[p].slug, base)})

DigitChar(d) ==
    CASE d = 0 -> "0" [] d = 1 -> "1" [] d = 2 -> "2" [] d = 3 -> "3"
      [] d = 4 -> "4" [] d = 5 -> "5" [] d = 6 -> "6" [] d = 7 -> "7"
      [] d = 8 -> "8" [] d = 9 -> "9"

\* str(n) inside the f-string
RECURSIVE Decimal(_)
Decimal(n) ==
    IF n < 10 THEN <<DigitChar(n)>>
    ELSE Decimal(n \div 10) \o <<DigitChar(n % 10)>>

\* base_slug if slug_count == 0 else f"{base_slug}-{slug_count}"
claude_slug(base, slug_count) ==
    IF slug_count = 0 THEN base ELSE base \o <<"-">> \o Decimal(slug_count)

\* base if count_like == 0 else f"{base}-{count_like + 1}"
posts_slug(base, count_like_) ==
    IF count_like_ = 0 THEN base ELSE base \o <<"-">> \o Decimal(count_like_ + 1)

\* unique=True on Post.slug: the index rejects a row whose slug another row has.
SlugTaken(db, slug, self) ==
    \E p \in DOMAIN db : p # self /\ db[p].slug = slug

\* Mutant: the slug column has no unique index.
InsertPost_NoUnique(db, id, post) ==
    [ok |-> TRUE,
     db |-> [p \in DOMAIN db \cup {id} |->
               IF p = id THEN [post EXCEPT !.id = id] ELSE db[p]]]

\* INSERT of a new post at commit; id is the primary key the database hands
\* out (an id no stored row has; which one depends on the database).
InsertPost(db, id, post) ==
    IF SlugTaken(db, post.slug, id)
    THEN [ok |-> FALSE, db |-> db]
    ELSE [ok |-> TRUE,
          db |-> [p \in DOMAIN db \cup {id} |->
                    IF p = id THEN [post EXCEPT !.id = id] ELSE db[p]]]

\* Columns of obj whose value differs from the loaded one: the SET clause of
\* the UPDATE the unit of work emits.
Changed(loaded, obj) == {f \in DOMAIN obj : obj[f] # loaded[f]}

\* session.commit() of a loaded object: UPDATE post SET <dirty columns>,
\* updated_at = now (onupdate) WHERE id = obj.id.  No UPDATE is emitted when
\* nothing changed.  The UPDATE fails when the row is gone (StaleDataError) or
\* when the new slug is another row's (IntegrityError).
FlushPost(db, obj, dirty, now) ==
    IF dirty = {} THEN [ok |-> TRUE, db |-> db]
    ELSE IF obj.id \notin DOMAIN db THEN [ok |-> FALSE, db |-> db]
    ELSE LET cur == db[obj.id]
             row == [f \in DOMAIN cur |->
                       IF f \in dirty THEN obj[f]
                       ELSE IF f = "updated_at" THEN now
                       ELSE cur[f]]
         IN IF "slug" \in dirty /\ SlugTaken(db, row.slug, obj.id)
            THEN [ok |-> FALSE, db |-> db]
            ELSE [ok |-> TRUE, db |-> [db EXCEPT ![obj.id] = row]]

\* session.delete(post); session.commit()
DeletePost(db, id) == [p \in DOMAIN db \ {id} |-> db[p]]

\* ------------------------------------------------------------------ deps.py
\* Mutant: _dep lets a missing user pass.
require_roles_NoneAllowed(roles, current_user) ==
    IF current_user = NoUser THEN 0
    ELSE IF current_user.role \notin roles THEN 403
    ELSE 0

\* require_roles(*roles)._dep: None has no attribute role (AttributeError,
\* answered as 500).  0 means the dependency passed.
require_roles(roles, current_user) ==
    IF current_user = NoUser THEN 500
    ELSE IF current_user.role \notin roles THEN 403
    ELSE 0

\* post.author_id != current_user.id and current_user.role != Role.admin
NotAuthorOrAdmin(post, current_user) ==
    post.author_id # current_user.id /\ current_user.role # RoleAdmin

Result(code, db) == [code |-> code, db |-> db]


\* ------------------------------------------------------------------ routers/posts_claude.py
\* The Post(...) that create_post builds; id, and the column defaults
\* (updated_at = now, published_at NULL) are filled in at INSERT.
claude_new_post(db, payload, current_user, now) ==
    LET base_slug == slugify(payload.title)
        slug_count == count_like(db, base_slug, 0)
    IN [id |-> 0,
        title |-> payload.title,
        slug |-> claude_slug(base_slug, slug_count),
        body |-> payload.body,
        status |-> draft,
        author_id |-> current_user.id,
        created_at |-> now,
        updated_at |-> now,
        published_at |-> Null]

\* Mutant: create_post of posts_claude.py stores the post before the role
\* check instead of after it.
create_post_InsertFirst(db, id, payload, current_user, now) ==
    LET auth == require_roles({RoleUser, RoleAdmin}, current_user)
        r == InsertPost(db, id, claude_new_post(db, payload, current_user, now))
    IN IF auth # 0 THEN Result(auth, r.db)
       ELSE IF r.ok THEN Result(201, r.db) ELSE Result(500, r.db)

create_post(db, id, payload, current_user, now) ==
    LET auth == require_roles({RoleUser, RoleAdmin}, current_user)
    IN IF auth # 0 THEN Result(auth, db)
       ELSE LET r == InsertPost(db, id, claude_new_post(db, payload, current_user, now))
            IN IF r.ok THEN Result(201, r.db) ELSE Result(500, r.db)

\* The checks of update_post, delete_post and submit_for_review before they
\* touch the post: 404, then 403, then 400; 0 when all pass.
draft_only_checks(db, post_id, current_user) ==
    IF post_id \notin DOMAIN db THEN 404
    ELSE IF current_user = NoUser THEN 500
    ELSE IF NotAuthorOrAdmin(db[post_id], current_user) THEN 403
    ELSE IF db[post_id].status # draft THEN 400
    ELSE 0

\* The post object after update_post's assignments (lines 69-83).
update_post_obj(db, post, payload, now) ==
    LET base_slug == slugify(payload.title)
        slug_count == count_like(db, base_slug, post.id)
        titled == IF payload.title # NoTitle
                  THEN [post EXCEPT !.title = payload.title,
                                    !.slug = claude_slug(base_slug, slug_count)]
                  ELSE post
        bodied == IF payload.body # None
                  THEN [titled EXCEPT !.body = payload.body]
                  ELSE titled
    IN [bodied EXCEPT !.updated_at = now]

update_post(db, post_id, payload, current_user, now) ==
    LET code == draft_only_checks(db, post_id, current_user)
    IN IF code # 0 THEN Result(code, db)
       ELSE LET post == db[post_id]
                obj == update_post_obj(db, post, payload, now)
                r == FlushPost(db, obj, Changed(post, obj) \cup {"updated_at"}, now)
            IN IF r.ok THEN Result(200, r.db) ELSE Result(500, r.db)

delete_post(db, post_id, current_user) ==
    LET code == draft_only_checks(db, post_id, current_user)
    IN IF code # 0 THEN Result(code, db)
       ELSE Result(204, DeletePost(db, post_id))

\* submitted_at is no column of Post: the assignment is not persisted.
submit_for_review(db, post_id, current_user, now) ==
    LET code == draft_only_checks(db, post_id, current_user)
    IN IF code # 0 THEN Result(code, db)
       ELSE LET post == db[post_id]
                obj == [post EXCEPT !.status = pending_review]
                r == FlushPost(db, obj, Changed(post, obj), now)
            IN IF r.ok THEN Result(200, r.db) ELSE Result(500, r.db)

publish_post(db, post_id, current_user, now) ==
    LET auth == require_roles({RoleAdmin}, current_user)
    IN IF auth # 0 THEN Result(auth, db)
       ELSE IF post_id \notin DOMAIN db THEN Result(404, db)
       ELSE IF db[post_id].status \notin {draft, pending_review} THEN Result(400, db)
       ELSE LET post == db[post_id]
                obj == [post EXCEPT !.status = published, !.published_at = now]
                r == FlushPost(db, obj, Changed(post, obj) \cup {"published_at"}, now)
            IN IF r.ok THEN Result(200, r.db) ELSE Result(500, r.db)

\* rejected_at is no column of Post: the assignment is not persisted.
reject_post(db, post_id, current_user, now) ==
    LET auth == require_roles({RoleAdmin}, current_user)
    IN IF auth # 0 THEN Result(auth, db)
       ELSE IF post_id \notin DOMAIN db THEN Result(404, db)
       ELSE IF db[post_id].status # pending_review THEN Result(400, db)
       ELSE LET post == db[post_id]
                obj == [post EXCEPT !.status = draft]
                r == FlushPost(db, obj, Changed(post, obj), now)
            IN IF r.ok THEN Result(200, r.db) ELSE Result(500, r.db)

\* ------------------------------------------------------------------ routers/posts.py
\* status is left to the column default (draft).
posts_new_post(db, payload, current_user, now) ==
    LET base == slugify(payload.title)
        count_like_ == count_like(db, base, 0)
    IN [id |-> 0,
        title |-> payload.title,
        slug |-> posts_slug(base, count_like_),
        body |-> payload.body,
        status |-> draft,
        author_id |-> current_user.id,
        created_at |-> now,
        updated_at |-> now,
        published_at |-> Null]

posts_create_post(db, id, payload, current_user, now) ==
    LET auth == require_roles({RoleUser, RoleAdmin}, current_user)
    IN IF auth # 0 THEN Result(auth, db)
       ELSE LET r == InsertPost(db, id, posts_new_post(db, payload, current_user, now))
            IN IF r.ok THEN Result(200, r.db) ELSE Result(500, r.db)

\* Mutant: submit_for_review of posts.py without its author check.
posts_submit_for_review_NoAuthorCheck(db, post_id, current_user, now) ==
    IF post_id \notin DOMAIN db THEN Result(404, db)
    ELSE LET post == db[post_id]
             obj == [post EXCEPT !.status = pending_review]
             r == FlushPost(db, obj, Changed(post, obj), now)
         IN IF r.ok THEN Result(200, r.db) ELSE Result(500, r.db)

posts_submit_for_review(db, post_id, current_user, now) ==
    IF post_id \notin DOMAIN db THEN Result(404, db)
    ELSE IF current_user = NoUser THEN Result(500, db)
    ELSE IF NotAuthorOrAdmin(db[post_id], current_user) THEN Result(403, db)
    ELSE LET post == db[post_id]
             obj == [post EXCEPT !.status = pending_review]
             r == FlushPost(db, obj, Changed(post, obj), now)
         IN IF r.ok THEN Result(200, r.db) ELSE Result(500, r.db)

\* ------------------------------------------------------------------ routers/admin.py
approve(db, post_id, current_user, now) ==
    LET auth == require_roles({RoleAdmin}, current_user)
    IN IF auth # 0 THEN Result(auth, db)
       ELSE IF post_id \notin DOMAIN db THEN Result(404, db)
       ELSE LET post == db[post_id]
                obj == [post EXCEPT !.status = published, !.published_at = now]
                r == FlushPost(db, obj, Changed(post, obj) \cup {"published_at"}, now)
            IN IF r.ok THEN Result(200, r.db) ELSE Result(500, r.db)

reject(db, post_id, current_user, now) ==
    LET auth == require_roles({RoleAdmin}, current_user)
    IN IF auth # 0 THEN Result(auth, db)
       ELSE IF post_id \notin DOMAIN db THEN Result(404, db)
       ELSE LET post == db[post_id]
                obj == [post EXCEPT !.status = rejected]
                r == FlushPost(db, obj, Changed(post, obj), now)
            IN IF r.ok THEN Result(200, r.db) ELSE Result(500, r.db)

\* ------------------------------------------------------------------ routers/auth.py
\* select(User).where(User.email == payload.email)
email_registered(us, email) == \E i \in 1..Len(us) : us[i].email = email

\* Role.admin if count == 0 else Role.user
first_is_admin(count) == IF count = 0 THEN RoleAdmin ELSE RoleUser

\* INSERT of the new user at commit; unique=True on User.email.
InsertUser(us, email, role) ==
    IF email_registered(us, email)
    THEN [ok |-> FALSE, us |-> us]
    ELSE [ok |-> TRUE,
          us |-> Append(us, [id |-> Len(us) + 1, email |-> email, role |-> role])]

register(us, email) ==
    IF email_registered(us, email) THEN [code |-> 400, us |-> us]
    ELSE LET r == InsertUser(us, email, first_is_admin(Len(us)))
         IN IF r.ok THEN [code |-> 200, us |-> r.us] ELSE [code |-> 500, us |-> us]

\* ------------------------------------------------------------------ requests with a bearer token
\* What decode_token makes of a bearer token: a JWTError ("invalid"), a
\* payload without "sub" ("nosub"), with a "sub" that int() rejects
\* ("nonint"), or with the decimal string of id ("int").
Tokens ==
    [kind : {"invalid", "nosub", "nonint"}, id : {0}]
        \cup [kind : {"int"}, id : 1..(MaxEmails + 1)]

\* login, line 46: create_access_token({"sub": str(user.id), ...})
TokenOf(user) == [kind |-> "int", id |-> user.id]

\* decode_token(token) raises JWTError
TokenRejected(token) == token.kind = "invalid"

\* session.get(User, int(sub))
get_user(us, id) == IF id \in 1..Len(us) THEN us[id] ELSE NoUser

\* get_current_user, lines 19-23 and 25-26, and int(sub) of line 24: decoding
\* fails, "sub" is missing or int(sub) raises; 401 before any await.
credentials_rejected(token) ==
    TokenRejected(token) \/ token.kind \in {"nosub", "nonint"}

\* get_current_user: 401 when the credentials are rejected.  Otherwise the
\* try block ends after session.get and the function ends with it: lines
\* 27-29 sit in the except block behind its raise, so the function returns
\* None whatever session.get found.
get_current_user(token, us) ==
    IF credentials_rejected(token)
    THEN [code |-> 401, user |-> NoUser]
    ELSE LET user == get_user(us, token.id)
         IN [code |-> 0, user |-> NoUser]

PostOps ==
    {"create_post", "posts_create_post", "update_post", "delete_post",
     "submit_for_review", "posts_submit_for_review", "publish_post",
     "reject_post", "approve", "reject"}

CreateOps == {"create_post", "posts_create_post"}

\* The routes that depend on get_current_user itself; their handlers start
\* with session.get(Post, post_id).  The other routes depend on
\* require_roles.
AuthorOps ==
    {"update_post", "delete_post", "submit_for_review", "posts_submit_for_review"}

PostIds == 1..MaxPostId

\* The post ids of a request path: the ids of PostIds and the stored ids.
PathIds(db) == PostIds \cup DOMAIN db

\* The primary keys an INSERT can be given: which unused id it is depends on
\* the database; whatever is stored, there is one.
NewIds(db) == (1..(Cardinality(DOMAIN db) + MaxPostId + 1)) \ DOMAIN db

CreatePayloads == [title : Titles, body : Bodies]
UpdatePayloads == [title : Titles \cup {NoTitle}, body : Bodies \cup {None}]

\* The request body of each route: PostUpdate for update_post, PostCreate for
\* the create routes (the other routes take none and ignore it).
Payloads(op) == IF op = "update_post" THEN UpdatePayloads ELSE CreatePayloads

\* The handler of each route, given the current_user its dependency returned.
\* id is the primary key an INSERT gets, post_id the id of the path.
Handle(op, db, id, post_id, payload, current_user, now) ==
    CASE op = "create_post" ->
            create_post(db, id, [title |-> payload.title, body |-> payload.body],
                        current_user, now)
      [] op = "posts_create_post" ->
            posts_create_post(db, id, [title |-> payload.title, body |-> payload.body],
                              current_user, now)
      [] op = "update_post" -> update_post(db, post_id, payload, current_user, now)
      [] op = "delete_post" -> delete_post(db, post_id, current_user)
      [] op = "submit_for_review" -> submit_for_review(db, post_id, current_user, now)
      [] op = "posts_submit_for_review" ->
            posts_submit_for_review(db, post_id, current_user, now)
      [] op = "publish_post" -> publish_post(db, post_id, current_user, now)
      [] op = "reject_post" -> reject_post(db, post_id, current_user, now)
      [] op = "approve" -> approve(db, post_id, current_user, now)
      [] op = "reject" -> reject(db, post_id, current_user, now)

\* A request to a post route: FastAPI resolves get_current_user from the
\* bearer token (401 ends the request), then runs the handler with what the
\* dependency returned.
Request(op, token, us, db, id, post_id, payload, now) ==
    LET auth == get_current_user(token, us)
    IN IF auth.code # 0 THEN Result(auth.code, db)
       ELSE Handle(op, db, id, post_id, payload, auth.user, now)

\* The last answered request: the route, its status code (500 for an
\* unhandled exception) and the post id of the path (0 for a create route).
Response(op, code, pid) ==
    [op |-> op, code |-> code, pid |-> pid]

\* A request in flight holds a slot of reqs between its awaits.
Idle == [kind |-> "idle"]

Slots == 1..MaxReqs

\* An empty database, no request in flight.
Init ==
    /\ users = <<>>
    /\ posts = <<>>
    /\ reqs = [i \in Slots |-> Idle]
    /\ resp = Response("init", 0, 0)

\* register, lines 16-18: the e-mail check.
RegisterCheckEmail ==
    \E i \in Slots, email \in Emails :
        /\ reqs[i] = Idle
        /\ IF email_registered(users, email)
           THEN /\ resp' = Response("register", 400, 0)
                /\ UNCHANGED reqs
           ELSE /\ reqs' = [reqs EXCEPT ![i] =
                              [kind |-> "register", pc |-> "count", email |-> email,
                               role |-> "None"]]
                /\ UNCHANGED resp
        /\ UNCHANGED <<users, posts>>

\* register, lines 21-22: the user count and the role.
RegisterCount ==
    \E i \in Slots :
        /\ reqs[i].kind = "register"
        /\ reqs[i].pc = "count"
        /\ reqs' = [reqs EXCEPT ![i].pc = "commit",
                                ![i].role = first_is_admin(Len(users))]
        /\ UNCHANGED <<users, posts, resp>>

\* register, lines 25-32: the INSERT and the commit; a second row with the
\* e-mail fails the unique index (IntegrityError, answered as 500).
RegisterCommit ==
    \E i \in Slots :
        /\ reqs[i].kind = "register"
        /\ reqs[i].pc = "commit"
        /\ LET r == InsertUser(users, reqs[i].email, reqs[i].role)
           IN /\ users' = r.us
              /\ IF r.ok
                 THEN /\ reqs' = [reqs EXCEPT ![i].pc = "refresh"]
                      /\ UNCHANGED resp
                 ELSE /\ reqs' = [reqs EXCEPT ![i] = Idle]
                      /\ resp' = Response("register", 500, 0)
        /\ UNCHANGED posts

\* register, lines 33-34: the refresh and the answer (users are never
\* deleted, so the row is there).
RegisterRefresh ==
    \E i \in Slots :
        /\ reqs[i].kind = "register"
        /\ reqs[i].pc = "refresh"
        /\ reqs' = [reqs EXCEPT ![i] = Idle]
        /\ resp' = Response("register", 200, 0)
        /\ UNCHANGED <<users, posts>>

\* A request to the post route op arrives: get_current_user runs to its
\* await of session.get (deps.py line 24), or answers 401 before it.  A create
\* route has no post id in its path.
HttpBegin(op) ==
    \E i \in Slots, token \in Tokens,
       post_id \in IF op \in CreateOps THEN {0} ELSE PathIds(posts) :
        /\ reqs[i] = Idle
        /\ IF credentials_rejected(token)
           THEN /\ resp' = Response(op, 401, post_id)
                /\ UNCHANGED reqs
           ELSE /\ reqs' = [reqs EXCEPT ![i] =
                              [kind |-> "http", pc |-> "get_user", op |-> op,
                               sub |-> token.id, post_id |-> post_id,
                               user |-> NoUser]]
                /\ UNCHANGED resp
        /\ UNCHANGED <<users, posts>>

\* session.get(User, int(sub)) completes and get_current_user returns.  A
\* route that depends on require_roles runs _dep and, if it passes, its
\* handler (id is the primary key the INSERT of a create route would get);
\* _dep raises on the None it is given, so the request ends here before any
\* further await, whatever is stored.  A route of AuthorOps enters its
\* handler, which runs to its await of session.get(Post, post_id); the
\* subject of the token is not read again.
HttpGetUser ==
    \E i \in Slots :
        /\ reqs[i].kind = "http"
        /\ reqs[i].pc = "get_user"
        /\ LET q == reqs[i]
               auth == get_current_user([kind |-> "int", id |-> q.sub], users)
           IN IF q.op \in AuthorOps
              THEN /\ reqs' = [reqs EXCEPT ![i].pc = "get_post", ![i].sub = 0,
                                           ![i].user = auth.user]
                   /\ UNCHANGED <<posts, resp>>
              ELSE \E id \in IF q.op \in CreateOps THEN NewIds(posts) ELSE {0},
                      payload \in Payloads(q.op), now \in Times :
                       LET r == Handle(q.op, posts, id, q.post_id, payload, auth.user, now)
                       IN /\ posts' = r.db
                          /\ resp' = Response(q.op, r.code, q.post_id)
                          /\ reqs' = [reqs EXCEPT ![i] = Idle]
        /\ UNCHANGED users

\* session.get(Post, post_id) completes and the handler of a route of
\* AuthorOps goes on: 404 when the post is missing, otherwise it reads
\* current_user.id of the None it was given (AttributeError, 500), so the
\* request ends here before any further await.
HttpGetPost ==
    \E i \in Slots :
        /\ reqs[i].kind = "http"
        /\ reqs[i].pc = "get_post"
        /\ LET q == reqs[i]
           IN \E payload \in Payloads(q.op), now \in Times :
                  LET r == Handle(q.op, posts, 0, q.post_id, payload, q.user, now)
                  IN /\ posts' = r.db
                     /\ resp' = Response(q.op, r.code, q.post_id)
                     /\ reqs' = [reqs EXCEPT ![i] = Idle]
        /\ UNCHANGED users

\* ------------------------------------------------------------------ anonymous reads
\* schemas/post.py PostPublic (from_attributes): the columns an anonymous
\* reader gets; status, author_id, created_at and updated_at are dropped.
PostPublic(post) ==
    [id |-> post.id, title |-> post.title, slug |-> post.slug, body |-> post.body,
     published_at |-> post.published_at]

\* No article: the body of a 404 answer.
NoArticle ==
    [id |-> 0, title |-> NoTitle, slug |-> NoTitle, body |-> None, published_at |-> Null]

\* PostPublic.published_at is datetime, not Optional: serializing a row whose
\* published_at is NULL fails (ResponseValidationError, answered as 500).
Serializable(post) == post.published_at # Null

\* where(Post.status == PostStatus.published)
PublishedIds(db) == {p \in DOMAIN db : db[p].status = published}

\* order_by(Post.published_at.desc()): every order of the published rows that
\* has published_at descending; rows with equal published_at come in any order.
PublishedOrders(db) ==
    LET ids == PublishedIds(db)
        n == Cardinality(ids)
    IN {s \in [1..n -> ids] :
          /\ \A i, j \in 1..n : i # j => s[i] # s[j]
          /\ \A i, j \in 1..n : i < j => db[s[i]].published_at >= db[s[j]].published_at}

Min(a, b) == IF a < b THEN a ELSE b

\* The rows of s after OFFSET offset LIMIT limit.
Page(s, limit, offset) ==
    IF offset >= Len(s) THEN <<>>
    ELSE SubSeq(s, offset + 1, Min(Len(s), offset + limit))

\* The answer of a list route for the rows ids (in order).
ArticleList(db, ids) ==
    IF \E i \in 1..Len(ids) : ~Serializable(db[ids[i]])
    THEN [code |-> 500, body |-> <<>>]
    ELSE [code |-> 200, body |-> [i \in 1..Len(ids) |-> PostPublic(db[ids[i]])]]

\* posts_claude.public_articles: the answers the query can give.
public_articles(db, limit, offset) ==
    {ArticleList(db, Page(s, limit, offset)) : s \in PublishedOrders(db)}

\* posts.public_articles: no pagination.
posts_public_articles(db) ==
    {ArticleList(db, s) : s \in PublishedOrders(db)}

\* Mutant: the query of article_detail has no status filter.
article_detail_NoStatus(db, slug) ==
    LET found == {p \in DOMAIN db : db[p].slug = slug}
    IN IF Cardinality(found) > 1 THEN [code |-> 500, post |-> NoArticle]
       ELSE IF found = {} THEN [code |-> 404, post |-> NoArticle]
       ELSE LET post == db[CHOOSE p \in found : TRUE]
            IN IF Serializable(post) THEN [code |-> 200, post |-> PostPublic(post)]
               ELSE [code |-> 500, post |-> NoArticle]

\* article_detail of posts_claude.py: scalar_one_or_none() raises when two
\* rows match (500), None gives 404.
article_detail(db, slug) ==
    LET found == {p \in DOMAIN db : db[p].slug = slug /\ db[p].status = published}
    IN IF Cardinality(found) > 1 THEN [code |-> 500, post |-> NoArticle]
       ELSE IF found = {} THEN [code |-> 404, post |-> NoArticle]
       ELSE LET post == db[CHOOSE p \in found : TRUE]
            IN IF Serializable(post) THEN [code |-> 200, post |-> PostPublic(post)]
               ELSE [code |-> 500, post |-> NoArticle]

\* article_detail of posts.py: the same query without the eager load.
posts_article_detail(db, slug) ==
    LET found == {p \in DOMAIN db : db[p].slug = slug /\ db[p].status = published}
    IN IF Cardinality(found) > 1 THEN [code |-> 500, post |-> NoArticle]
       ELSE IF found = {} THEN [code |-> 404, post |-> NoArticle]
       ELSE LET post == db[CHOOSE p \in found : TRUE]
            IN IF Serializable(post) THEN [code |-> 200, post |-> PostPublic(post)]
               ELSE [code |-> 500, post |-> NoArticle]

\* limit: Query(10, ge=1, le=100); offset: Query(0, ge=0)
Limits == 1..MaxPostId
Offsets == 0..MaxPostId

\* f"{base}-{n}"
Suffixed(base, n) == base \o <<"-">> \o Decimal(n)

\* The slug of the path: the slugs a request title can be given.
RequestSlugs ==
    {slugify(t) : t \in Titles} \cup {Suffixed(slugify(t), n) : t \in Titles, n \in 1..2}

\* The answer to an anonymous read: the route, the status code, the slug of
\* the path and the articles of the body.
ReadResponse(op, code, slug, body) ==
    [op |-> op, code |-> code, pid |-> 0, slug |-> slug, body |-> body]

PublicArticles ==
    \E limit \in Limits, offset \in Offsets :
        \E r \in public_articles(posts, limit, offset) :
            /\ resp' = ReadResponse("public_articles", r.code, <<>>, r.body)
            /\ UNCHANGED <<users, posts, reqs>>

PostsPublicArticles ==
    \E r \in posts_public_articles(posts) :
        /\ resp' = ReadResponse("posts_public_articles", r.code, <<>>, r.body)
        /\ UNCHANGED <<users, posts, reqs>>

ArticleDetail ==
    \E slug \in RequestSlugs :
        LET r == article_detail(posts, slug)
        IN /\ resp' = ReadResponse("article_detail", r.code, slug, <<r.post>>)
           /\ UNCHANGED <<users, posts, reqs>>

PostsArticleDetail ==
    \E slug \in RequestSlugs :
        LET r == posts_article_detail(posts, slug)
        IN /\ resp' = ReadResponse("posts_article_detail", r.code, slug, <<r.post>>)
           /\ UNCHANGED <<users, posts, reqs>>

\* ------------------------------------------------------------------ the program
Next ==
    \/ RegisterCheckEmail
    \/ RegisterCount
    \/ RegisterCommit
    \/ RegisterRefresh
    \/ HttpBegin("create_post")
    \/ HttpBegin("posts_create_post")
    \/ HttpBegin("update_post")
    \/ HttpBegin("delete_post")
    \/ HttpBegin("submit_for_review")
    \/ HttpBegin("posts_submit_for_review")
    \/ HttpBegin("publish_post")
    \/ HttpBegin("reject_post")
    \/ HttpBegin("approve")
    \/ HttpBegin("reject")
    \/ HttpGetUser
    \/ HttpGetPost
    \/ PublicArticles
    \/ PostsPublicArticles
    \/ ArticleDetail
    \/ PostsArticleDetail

Spec == Init /\ [][Next]_vars

\* ------------------------------------------------------------------ the program on a database with rows
\* The program creates no table and deletes no row at start (db/session.py
\* connects to the database that DATABASE_URL names), so the rows stored
\* there before the program starts are part of its first state.
StoredRow(id, title, slug, status, published_at) ==
    [id |-> id, title |-> title, slug |-> slug, body |-> "b1", status |-> status,
     author_id |-> 1, created_at |-> Now0, updated_at |-> Now0,
     published_at |-> published_at]

\* The stored posts the program starts on.  Each row is one that the routes
\* write: a published post with base slug "a" next to a later post of the
\* same title, slug "a-1", that is pending_review or rejected; and a draft
\* alone that was given slug "a-1" next to an earlier post, deleted since.  slug is unique
\* (models/post.py line 18) and published_at is set on the published row
\* only.
StoredPosts ==
    {[p \in {1} |-> StoredRow(1, <<"A">>, <<"a", "-", "1">>, draft, Null)]}
    \cup {[p \in {1, 2} |->
              IF p = 1 THEN StoredRow(1, <<"A">>, <<"a">>, published, Now0)
              ELSE StoredRow(2, <<"A">>, <<"a", "-", "1">>, st, Null)] :
            st \in {pending_review, rejected}}

\* The first registered user, the admin, is stored and is the author of the
\* stored posts; no request is in flight.
InitStored ==
    /\ users = <<[id |-> 1, email |-> 1, role |-> RoleAdmin]>>
    /\ posts \in StoredPosts
    /\ reqs = [i \in Slots |-> Idle]
    /\ resp = Response("init", 0, 0)

SpecStored == InitStored /\ [][Next]_vars

\* ------------------------------------------------------------------ slug allocation as a function
\* Titles for the slug functions: separators at either end, an accented
\* letter, a letter with no ASCII form, underscores, runs of separators.
SlugTitles ==
    Titles \cup {<<"a", "-">>, <<"-", "a">>, <<" ", "e-acute", "_", "B", " ">>,
                 <<"sharp-s">>, <<"B">>, <<"a", " ", " ", "b">>, <<"a", "_", "b">>,
                 <<"A", "B">>, <<"a", "-", "-", "b">>, <<"1">>}

\* The slug a create or update request allocates for title when slug_count
\* stored slugs start with slugify(title): posts_claude.py lines 24-29 and
\* 69-78, posts.py lines 21-25.
allocate_slug(router, title, slug_count) ==
    IF router = "posts_claude"
    THEN claude_slug(slugify(title), slug_count)
    ELSE posts_slug(slugify(title), slug_count)

\* The slug functions applied to a title and a count of existing slugs.
AllocateSlug ==
    \E router \in {"posts_claude", "posts"}, title \in SlugTitles, n \in 0..MaxCount :
        /\ resp' = [op |-> router, code |-> 0, pid |-> n,
                    title |-> title, slug |-> allocate_slug(router, title, n)]
        /\ UNCHANGED <<users, posts, reqs>>

NextSlug == AllocateSlug

SpecSlug == Init /\ [][NextSlug]_vars

\* C17 (as stated): slugify returns the allocated slug unchanged, for every
\* title and every number of existing slugs with its prefix, and slugify is
\* idempotent on every title.
C17_SlugifyIdempotent ==
    /\ resp.op \in {"posts_claude", "posts"} => slugify(resp.slug) = resp.slug
    /\ \A t \in SlugTitles : slugify(slugify(t)) = slugify(t)

\* ------------------------------------------------------------------ claims
Now == CHOOSE t \in Times : TRUE

\* The first two registered users, when the first is the admin and the
\* second a user.
TwoUsers ==
    /\ Len(users) >= 2
    /\ users[1].role = RoleAdmin
    /\ users[2].role = RoleUser

Admin == users[1]

Author == users[2]

\* The answer to a request of user to route op, sent with the token login
\* issues to that user; pid is the post id of the path, and the primary key
\* of the new row for a create route.
By(user, op, db, pid, payload) ==
    Request(op, TokenOf(user), users, db, pid, pid, payload, Now)

BodyOnly == [title |-> NoTitle, body |-> "b1"]

Stamped(db) ==
    \A p \in DOMAIN db : (db[p].published_at # Null) <=> (db[p].status = published)

UniqueSlugs(db) ==
    \A p, q \in DOMAIN db : p # q => db[p].slug # db[q].slug

MutatingOps == PostOps \ CreateOps

AdminOnlyOps == {"publish_post", "reject_post", "approve", "reject"}

SubmitOps == {"submit_for_review", "posts_submit_for_review"}

PublishOps == {"publish_post", "approve"}

RejectOps == {"reject_post", "reject"}

\* The stored users.
StoredUsers == {users[i] : i \in 1..Len(users)}

\* No request is between two of its awaits.
NoneInFlight == \A i \in Slots : reqs[i] = Idle

C2_OutsiderForbidden ==
    TwoUsers =>
        \A id \in NewIds(posts), payload \in CreatePayloads :
            LET r1 == By(Admin, "create_post", posts, id, payload)
                r2 == By(Admin, "publish_post", r1.db, id, payload)
            IN /\ r1.code = 201
               /\ r2.code = 200
               /\ \A op \in MutatingOps, db \in {r1.db, r2.db} :
                      By(Author, op, db, id, BodyOnly) = Result(403, db)

\* C3 (as stated): the author's edit of their draft succeeds; after the admin
\* approved the post, the author's edit is answered 400 and the post is as
\* before.
C3_EditSucceedsIffDraft ==
    TwoUsers =>
        \A id \in NewIds(posts), payload \in CreatePayloads :
            LET r1 == By(Author, "create_post", posts, id, payload)
                r2 == By(Author, "update_post", r1.db, id, BodyOnly)
                r3 == By(Admin, "approve", r1.db, id, payload)
                r4 == By(Author, "update_post", r3.db, id, BodyOnly)
            IN /\ r1.code = 201
               /\ r2.code = 200
               /\ r2.db[id].status = draft
               /\ r3.code = 200
               /\ r4 = Result(400, r3.db)

\* The commits of two create_post requests with one title that both ran
\* their slug count on the stored posts, one after the other, and the commit
\* of an edit that gives a post the slug of another: they never leave two
\* posts with one slug; once the first row is stored, the unique index
\* refuses the second and nothing more is stored.
C4_Commits ==
    /\ \A id1, id2 \in NewIds(posts), payload \in CreatePayloads,
          u1, u2 \in StoredUsers \cup {NoUser} :
          LET i1 == InsertPost(posts, id1, claude_new_post(posts, payload, u1, Now))
              i2 == InsertPost(i1.db, id2, claude_new_post(posts, payload, u2, Now))
          IN id1 # id2 =>
               /\ UniqueSlugs(i1.db)
               /\ UniqueSlugs(i2.db)
               /\ i1.ok => ~i2.ok /\ i2.db = i1.db
    /\ \A p, q \in DOMAIN posts :
          p # q =>
            FlushPost(posts, [posts[p] EXCEPT !.slug = posts[q].slug], {"slug"}, Now)
              = [ok |-> FALSE, db |-> posts]

C6_Steps(id, payload) ==
    LET r1 == By(Author, "create_post", posts, id, payload)
        r2 == By(Author, "submit_for_review", r1.db, id, payload)
        r3 == By(Admin, "approve", r2.db, id, payload)
        r4 == By(Admin, "publish_post", r2.db, id, payload)
    IN /\ r1.code = 201
       /\ r1.db[id].status = draft
       /\ r1.db[id].slug = slugify(payload.title)
       /\ r2.code = 200
       /\ r3.code = 200
       /\ r3.db[id].status = published
       /\ r3.db[id].published_at # Null
       /\ r3.db[id].slug = slugify(payload.title)
       /\ r4 = r3

\* C6 (as stated): in a system with no posts where A registered and then B
\* registered, one request after the other, A is admin and B is user; a post B creates with title T is a draft
\* with slug slugify(T), and after B submits it and A approves it, it is
\* published, published_at is set and the slug is still slugify(T).
C6_Scenario ==
    /\ Len(users) = 2
    /\ users = register(register(<<>>, users[1].email).us, users[2].email).us
    /\ posts = <<>>
    =>
        /\ TwoUsers
        /\ \A id \in NewIds(posts), payload \in CreatePayloads : C6_Steps(id, payload)

\* n creates of one payload by route op, one after the other, the rows
\* getting the primary keys 1, 2, ..., n of a fresh table.
RECURSIVE CreateN(_, _, _, _, _)
CreateN(op, db, payload, user, n) ==
    IF n = 0 THEN [ok |-> TRUE, db |-> db]
    ELSE LET prev == CreateN(op, db, payload, user, n - 1)
             r == By(user, op, prev.db, n, payload)
         IN [ok |-> prev.ok /\ r.code \in {200, 201}, db |-> r.db]

\* C7 (as stated): n posts with one title created in sequence in a system
\* with no other posts get base, base-1, base-2, ..., all distinct, under
\* either router.
C7_SameTitleSlugs ==
    TwoUsers /\ posts = <<>> =>
        \A op \in CreateOps, payload \in CreatePayloads, n \in 1..MaxChain :
            LET c == CreateN(op, posts, payload, Author, n)
                base == slugify(payload.title)
            IN /\ c.ok
               /\ DOMAIN c.db = 1..n
               /\ c.db[1].slug = base
               /\ \A k \in 2..n : c.db[k].slug = Suffixed(base, k - 1)
               /\ UniqueSlugs(c.db)

\* C8 (as stated): once a user is stored, exactly one user is admin, the
\* first one committed, and every other user has role user.
C8_OneAdmin ==
    \A i \in 1..Len(users) : users[i].role = first_is_admin(i - 1)

\* C9 (as stated): a publish, approve or reject request of a user who is not
\* an admin is answered 403 and changes nothing, whether or not the post
\* exists, and every stored post that is published or rejected has an admin
\* among the stored users.
C9_AdminOnly ==
    /\ \A p \in DOMAIN posts :
          posts[p].status \in {published, rejected} =>
              \E i \in 1..Len(users) : users[i].role = RoleAdmin
    /\ TwoUsers =>
         \A op \in AdminOnlyOps, pid \in PostIds, payload \in CreatePayloads :
             By(Author, op, posts, pid, payload) = Result(403, posts)

\* C10 (as stated): the author's submit of their draft succeeds and makes it
\* pending_review; a second submit, by the author or the admin, is answered
\* 400 and changes nothing, under either router.
C10_SubmitOnlyFromDraft ==
    TwoUsers =>
        \A id \in NewIds(posts), payload \in CreatePayloads, op \in SubmitOps :
            LET r1 == By(Author, "create_post", posts, id, payload)
                r2 == By(Author, op, r1.db, id, payload)
            IN /\ r1.code = 201
               /\ r2.code = 200
               /\ r2.db[id].status = pending_review
               /\ \A again \in SubmitOps, user \in {Author, Admin} :
                      By(user, again, r2.db, id, payload) = Result(400, r2.db)

\* C11 (as stated): the admin's publish or approve of a draft succeeds, makes
\* it published and stamps published_at; a second publish or approve is
\* answered 400 and changes nothing.
C11_PublishOnlyFromDraftOrPending ==
    TwoUsers =>
        \A id \in NewIds(posts), payload \in CreatePayloads, op \in PublishOps :
            LET r1 == By(Author, "create_post", posts, id, payload)
                r2 == By(Admin, op, r1.db, id, payload)
            IN /\ r1.code = 201
               /\ r2.code = 200
               /\ r2.db[id].status = published
               /\ r2.db[id].published_at # Null
               /\ \A again \in PublishOps :
                      By(Admin, again, r2.db, id, payload) = Result(400, r2.db)

\* C12 (as stated): the admin's reject of a post submitted for review
\* succeeds and makes it rejected or draft; the admin's reject of a draft is
\* answered 400 and changes nothing.
C12_RejectOnlyFromPending ==
    TwoUsers =>
        \A id \in NewIds(posts), payload \in CreatePayloads, op \in RejectOps :
            LET r1 == By(Author, "create_post", posts, id, payload)
                r2 == By(Author, "submit_for_review", r1.db, id, payload)
                r3 == By(Admin, op, r2.db, id, payload)
            IN /\ r1.code = 201
               /\ By(Admin, op, r1.db, id, payload) = Result(400, r1.db)
               /\ r2.code = 200
               /\ r3.code = 200
               /\ r3.db[id].status \in {rejected, draft}

\* C13 (as stated): the author's delete of their draft removes that post and
\* no other; after the post was submitted, the delete is answered 400 and
\* the post stays.
C13_DeleteIffDraft ==
    TwoUsers =>
        \A id \in NewIds(posts), payload \in CreatePayloads :
            LET r1 == By(Author, "create_post", posts, id, payload)
                r2 == By(Author, "delete_post", r1.db, id, payload)
                r3 == By(Author, "submit_for_review", r1.db, id, payload)
                r4 == By(Author, "delete_post", r3.db, id, payload)
            IN /\ r1.code = 201
               /\ r2 = Result(204, posts)
               /\ r3.code = 200
               /\ r4 = Result(400, r3.db)

\* C14 (as stated): the admin's edit of a post of another author is denied
\* and changes nothing, and the admin's publish of that post succeeds.
C14_AdminCannotEdit ==
    TwoUsers =>
        \A id \in NewIds(posts), payload \in CreatePayloads,
           edit \in UpdatePayloads :
            LET r1 == By(Author, "create_post", posts, id, payload)
                r2 == By(Admin, "update_post", r1.db, id, edit)
                r3 == By(Admin, "publish_post", r1.db, id, payload)
            IN /\ r1.code = 201
               /\ r2 = Result(403, r1.db)
               /\ r3.code = 200
               /\ r3.db[id].status = published

ErrorCodes == {400, 401, 403, 404, 409, 500}

\* C16: every step of the program that answers a request with an error
\* leaves the stored posts and users exactly as they were; so does every
\* request to a post route, sent while no other is in flight, that is
\* answered with an error (401, 404 for a post that is not stored, 500); so
\* does every handler of a post route that is given a stored user as
\* current_user and answers with an error (404, 403 for a user who may not
\* act, 400 for a status that does not allow the transition, 500 for a
\* refused commit); and a commit that the unique index on slug refuses
\* leaves the posts as they were.
C16_ErrorsChangeNothing ==
    /\ [][resp' # resp /\ resp'.code \in ErrorCodes
              => posts' = posts /\ users' = users]_vars
    /\ [](NoneInFlight =>
              \A op \in PostOps, token \in Tokens, pid \in PathIds(posts) \cup NewIds(posts) :
                  \A payload \in Payloads(op) :
                      LET r == Request(op, token, users, posts, pid, pid, payload, Now)
                      IN r.code \in ErrorCodes => r.db = posts)
    /\ [](NoneInFlight =>
              \A op \in PostOps, u \in StoredUsers, pid \in PathIds(posts) \cup NewIds(posts) :
                  \A payload \in Payloads(op), id \in NewIds(posts) :
                      LET r == Handle(op, posts, id, pid, payload, u, Now)
                      IN r.code \in ErrorCodes => r.db = posts)
    /\ [](NoneInFlight =>
              \A p \in DOMAIN posts, id \in NewIds(posts), payload \in CreatePayloads :
                  LET i == InsertPost(posts, id, [posts[p] EXCEPT !.id = 0])
                      obj == update_post_obj(posts, posts[p], payload, Now)
                      f == FlushPost(posts, obj, Changed(posts[p], obj), Now)
                  IN /\ ~i.ok /\ i.db = posts
                     /\ ~f.ok => f.db = posts)

\* C16 witness: a delete request for a stored draft was answered with an
\* error and the draft is still stored; a second user has registered, for
\* whom the handler itself answers 403.
C16_Witness ==
    /\ Len(users) = 2
    /\ resp.op = "delete_post"
    /\ resp.code = 500
    /\ resp.pid \in DOMAIN posts
    /\ posts[resp.pid].status = draft
    /\ delete_post(posts, resp.pid, users[2]) = Result(403, posts)

C20_CurrentUser ==
    \A token \in Tokens :
        LET r == get_current_user(token, users)
        IN IF token.kind = "int" /\ token.id \in 1..Len(users)
           THEN r = [code |-> 0, user |-> users[token.id]]
           ELSE r = [code |-> 401, user |-> NoUser]

\* Every article of body is the public projection of a stored post whose
\* status is published.
OnlyPublished(body) ==
    \A i \in 1..Len(body) :
        /\ body[i].id \in PublishedIds(posts)
        /\ body[i] = PostPublic(posts[body[i].id])

\* C21: in every reachable state public_articles of either router answers
\* with published posts only (posts.public_articles with all of them, each
\* once), and article_detail of either router answers 200 with the post when
\* a stored post has the slug and is published, and 404 otherwise: the slug
\* of a draft, pending_review or rejected post gets 404.
C21_PublicReadsPublishedOnly ==
    /\ \A limit \in Limits, offset \in Offsets :
          \A r \in public_articles(posts, limit, offset) :
              /\ r.code = 200
              /\ OnlyPublished(r.body)
              /\ Len(r.body) <= limit
    /\ \A r \in posts_public_articles(posts) :
          /\ r.code = 200
          /\ OnlyPublished(r.body)
          /\ {r.body[i].id : i \in 1..Len(r.body)} = PublishedIds(posts)
          /\ Len(r.body) = Cardinality(PublishedIds(posts))
    /\ \A slug \in RequestSlugs \cup {posts[p].slug : p \in DOMAIN posts} :
          \A r \in {article_detail(posts, slug), posts_article_detail(posts, slug)} :
              IF \E p \in DOMAIN posts : posts[p].slug = slug /\ posts[p].status = published
              THEN /\ r.code = 200
                   /\ r.post.slug = slug
                   /\ OnlyPublished(<<r.post>>)
              ELSE r = [code |-> 404, post |-> NoArticle]

\* C21 witness: a published and a rejected post are stored, and
\* article_detail, asked for the slug of the rejected one, answered 404 with
\* no article, while it answers 200 for the slug of the published one.
C21_Witness ==
    /\ resp.op = "article_detail"
    /\ resp.code = 404
    /\ resp.body = <<NoArticle>>
    /\ \E p, q \in DOMAIN posts :
          /\ posts[p].slug = resp.slug
          /\ posts[p].status = rejected
          /\ posts[q].status = published
          /\ article_detail(posts, posts[q].slug).code = 200

====
